---- MODULE Spec2Model ----
(***************************************************************************)
(* Model of the circular gesture recogniser of                             *)
(* src/components/CircularGesturDetector.tsx.                              *)
(*                                                                         *)
(* Numbers.  The component computes with IEEE doubles; the model computes  *)
(* in fixed point:                                                         *)
(*   - pointer coordinates and the centre are whole pixels;                *)
(*   - a radius is an integer number of 1/RUnit pixels;                    *)
(*   - an angle is an integer number of 1/Deg degrees, so that             *)
(*     Math.PI is PI == 180 * Deg and 2 * Math.PI is TWO_PI;               *)
(*   - a turn count (an angle divided by 2 * Math.PI) is carried as the    *)
(*     angle itself: the value t stands for t / TWO_PI turns.              *)
(* A division that is not exact truncates toward zero.  Deg is a power of  *)
(* five and RUnit a multiple of 1..6, so the moving average and the        *)
(* running mean of the first samples of a gesture are computed exactly.    *)
(*                                                                         *)
(* Gesture lifecycle.  The handlers are registered on a                    *)
(* react-native-gesture-handler Pan gesture.  The library calls onBegin    *)
(* when the handler leaves UNDETERMINED for BEGAN, onUpdate for every      *)
(* pointer move while ACTIVE, onEnd(event, success) whenever the handler   *)
(* leaves ACTIVE (success is true for END and false for CANCELLED), and    *)
(* onFinalize whenever a begun handler reaches END, FAILED or CANCELLED,   *)
(* after onEnd if that one ran.                                            *)
(*                                                                         *)
(* Callbacks.  The handlers run on the UI thread and reach the consumer    *)
(* through runOnJS, which schedules the call on the JS thread; the JS      *)
(* thread runs the scheduled calls one at a time, oldest first (RunOnJS).  *)
(* onLayout writes the calibration at any time outside a pan event.        *)
(*                                                                         *)
(* List consumer.  src/app/index.tsx scrolls a list of cards from the      *)
(* callbacks.  There a turn count is an integer number of 1/TurnUnit       *)
(* turns and a scroll offset an integer number of 1/TurnUnit pixels, so    *)
(* that |turns| * windowWidth * speedMultiplier is exact; a distance is an *)
(* integer number of metres and a pinch scale a number of tenths.          *)
(***************************************************************************)
EXTENDS Integers, Sequences, FiniteSets, TLC

\* ------------------------------------------------------------------ bounds
\* pointer moves delivered to onUpdate in one gesture
MaxMoves == 4
\* pinch updates reported in one gesture
MaxPinch == 1
\* full revolutions of the scripted circular path
MaxRevolutions == 3
\* largest multiple of a full turn fed to normalizeAngle on its own
MaxWraps == 2
\* pointer moves of the scripted back-and-forth path
MaxSteps == 14
\* changes of the sense of rotation along the scripted back-and-forth path
MaxReversals == 1
\* largest number of turns, either way, passed to the list consumer
MaxTurns == 2

\* ------------------------------------------------------- fixed-point units
Deg == 15625
RUnit == 60
PI == 180 * Deg
TWO_PI == 2 * PI

\* ------------------------------------------------------------------- props
size == 280
minRadiusRatio == 45
maxRadiusRatio == 85
turnThreshold == 1

\* ----------------------------------------------------------------- numbers
Abs(x) == IF x < 0 THEN -x ELSE x

\* JavaScript number division, truncated toward zero where it is not exact
Quot(a, b) == IF a >= 0 THEN a \div b ELSE -((-a) \div b)

\* JavaScript %: the result takes the sign of the dividend
JsMod(a, m) == IF a >= 0 THEN a % m ELSE -((-a) % m)

RECURSIVE SqrtSearch(_, _, _)
SqrtSearch(n, lo, hi) ==
  IF lo >= hi THEN lo
  ELSE LET mid == (lo + hi + 1) \div 2
       IN IF mid * mid <= n THEN SqrtSearch(n, mid, hi)
          ELSE SqrtSearch(n, lo, mid - 1)

\* Math.hypot(dx, dy), in 1/RUnit pixels
Hypot(dx, dy) == SqrtSearch((dx * dx + dy * dy) * RUnit * RUnit, 0, 40000)

\* tan((k - 1/2) degrees) * 10^6 for k = 1..45
TanHalf ==
  << 8727, 26186, 43661, 61163, 78702, 96289, 113936, 131652, 149451,
     167343, 185339, 203452, 221695, 240079, 258618, 277325, 296213, 315299,
     334595, 354119, 373885, 393910, 414214, 434812, 455726, 476976, 498582,
     520567, 542956, 565773, 589045, 612801, 637070, 661886, 687281, 713293,
     739961, 767327, 795436, 824336, 854081, 884725, 916331, 948965, 982697 >>

\* the angle of (x, y), 0 <= y <= x, x > 0, rounded to whole degrees 0..45
OctantDeg(y, x) ==
  Cardinality({k \in 1..45 : y * 1000000 >= x * TanHalf[k]})

\* Math.atan2(dy, dx), rounded to whole degrees, in 1/Deg degrees
Atan2(dy, dx) ==
  IF dx = 0 /\ dy = 0 THEN 0
  ELSE LET ax == Abs(dx)
           ay == Abs(dy)
           q  == IF ay <= ax THEN OctantDeg(ay, ax) ELSE 90 - OctantDeg(ax, ay)
           h  == IF dx >= 0 THEN q ELSE 180 - q
       IN Deg * (IF dy >= 0 THEN h ELSE -h)

\* ------------------------------------------------------------ pure helpers
\* normalizeAngle with a single remainder
normalizeAngleOneMod(a) == JsMod(a + PI, TWO_PI) - PI

normalizeAngle(a) == JsMod(JsMod(a + PI, TWO_PI) + TWO_PI, TWO_PI) - PI

\* 0.05 rad is 2.8648 degrees: for an integer d, |d| < 0.05 rad iff
\* Abs(d) < MinAngleStep
MinAngleStep == 44763

\* a dead zone of no extent
InDeadZoneEmpty(r, R) == r < 0

\* r < R * 0.05 (r in 1/RUnit pixels, R in pixels)
InDeadZone(r, R) == r * 100 < R * RUnit * 5

\* a gate that lets every step through
TooLinearNever(d, lastR) == lastR > 0 /\ Abs(d) < 0

\* the gate of the minimum angular step, open on the first sample
TooLinear(d, lastR) == lastR > 0 /\ Abs(d) < MinAngleStep

\* a moving average whose old value does not decay
EmaNoDecay(d, v) == Quot(4 * d + 10 * v, 10)

\* alpha * d + (1 - alpha) * angularVelocity, alpha = 0.4
Ema(d, v) == Quot(4 * d + 6 * v, 10)

\* the two senses of rotation swapped
DirectionOfSwapped(v) == IF v < 0 THEN "counterclockwise" ELSE "clockwise"

DirectionOf(v) == IF v < 0 THEN "clockwise" ELSE "counterclockwise"

\* the reversal check without its reset
AfterReversalKeepsTotal(total, lastDir, curDir) == total

\* totalAngle after the reversal check, before the accumulation
AfterReversal(total, lastDir, curDir) ==
  IF lastDir # "" /\ lastDir # curDir THEN 0 ELSE total

\* the floor of the signed turn count
FullTurnsSigned(turns) == turns \div TWO_PI

\* Math.floor(Math.abs(turns))
FullTurns(turns) == Abs(turns) \div TWO_PI

\* a detection that also fires when the whole turns have not grown
NewFullTurnRepeats(currentTurns, lastTurn) ==
  /\ FullTurns(currentTurns) >= FullTurns(lastTurn)
  /\ FullTurns(currentTurns) >= turnThreshold

NewFullTurn(currentTurns, lastTurn) ==
  /\ FullTurns(currentTurns) > FullTurns(lastTurn)
  /\ FullTurns(currentTurns) >= turnThreshold

VarR(m2, n) == IF n > 1 THEN Quot(m2, n - 1) ELSE 0

okTurns(turns) == Abs(turns) >= turnThreshold * TWO_PI

\* the acceptance test without the variance criterion
okVarianceAlways(varR, R) == TRUE

okVariance(varR, R) == varR <= (Quot(R * RUnit * 15, 100)) * (Quot(R * RUnit * 15, 100))

Accepts(band, turns, varR, R) == band /\ okTurns(turns) /\ okVariance(varR, R)

\* ------------------------------------------------------------------- state
VARIABLES
  centerX, centerY, centerR,        \* calibration, in pixels
  prevAngle, totalAngle, samples, radiusMean, radiusM2, isInsideBand,
  lastReportedTurn, lastReportedAngle, angularVelocity, lastUpdateTime,
  lastDirection, lastRadius,        \* the shared values of one gesture
  state,                            \* the state of the Pan handler
  calls,                            \* callbacks passed to runOnJS since the last onBegin
  trace,                            \* pointer positions of the gesture, the begin position first
  input,                            \* the event handled last
  jsDone,                           \* positions in calls of the calls the JS thread has run, in the order it ran them
  windowWidth,                      \* the list consumer: width of the window, in pixels
  currentIndexRef, baseOffsetRef, lastDirectionRef,
  distanceKm, basePinchScaleRef, baseDistanceRef,
  scrollOffset,                     \* the offset passed to FlatList.scrollToOffset last
  angleArg, angleRes                \* argument and result of a lone normalizeAngle call

calibration == <<centerX, centerY, centerR>>
stats == <<totalAngle, samples, radiusMean, radiusM2, isInsideBand,
           lastReportedTurn, lastReportedAngle, angularVelocity,
           lastUpdateTime, lastDirection, lastRadius>>
tracker == <<prevAngle, stats>>
pure == <<angleArg, angleRes>>
consumer == <<windowWidth, currentIndexRef, baseOffsetRef, lastDirectionRef,
              distanceKm, basePinchScaleRef, baseDistanceRef, scrollOffset>>
vars == <<calibration, tracker, state, calls, trace, input, jsDone, pure, consumer>>

Unset == -1000000000

\* ---------------------------------------------------------------- callbacks
\* a call runOnJS(f)(...): cb names the consumer's callback (reportGestureStart
\* -> gestureStart, reportChange -> rotationChange, report -> circle,
\* reportGestureEnd -> gestureEnd, reportPinchChange -> pinchChange) and by
\* the handler that made the call
GestureStart ==
  [cb |-> "gestureStart", by |-> "onBegin", turns |-> 0, direction |-> "",
   speed |-> 0, scale |-> 0]
GestureEnd(h) ==
  [cb |-> "gestureEnd", by |-> h, turns |-> 0, direction |-> "",
   speed |-> 0, scale |-> 0]
RotationChange(t, dir, sp) ==
  [cb |-> "rotationChange", by |-> "onUpdate", turns |-> t, direction |-> dir,
   speed |-> sp, scale |-> 0]
Circle(h, t, dir) ==
  [cb |-> "circle", by |-> h, turns |-> t, direction |-> dir,
   speed |-> 0, scale |-> 0]
PinchChange(s) ==
  [cb |-> "pinchChange", by |-> "pinch", turns |-> 0, direction |-> "",
   speed |-> 0, scale |-> s]

\* ------------------------------------------------------------------- events
NoEvent == [kind |-> "none", x |-> 0, y |-> 0, scale |-> 0]
PointerEvent(k, p) == [kind |-> k, x |-> p.x, y |-> p.y, scale |-> 0]
PinchEvent(s) == [kind |-> "pinch", x |-> 0, y |-> 0, scale |-> s]
StateEvent(k) == [kind |-> k, x |-> 0, y |-> 0, scale |-> 0]
LayoutEvent(width, height) == [kind |-> "layout", x |-> width, y |-> height, scale |-> 0]

\* ------------------------------------------------------------ list consumer
TurnUnit == 8
\* events.length
eventsLength == 10
\* the width useWindowDimensions reports unless a specification says otherwise
DefaultWidth == 360

MathMax(a, b) == IF a >= b THEN a ELSE b
MathMin(a, b) == IF a <= b THEN a ELSE b
\* Math.round(a / b) for b > 0: halves round up
MathRound(a, b) == (2 * a + b) \div (2 * b)

CallbackEvent(k) == [kind |-> k, x |-> 0, y |-> 0, scale |-> 0]
\* a call flatListRef.current.scrollToOffset({ offset, animated })
ScrollTo(offset, animated) == [offset |-> offset, animated |-> animated]

\* the refs and the state of Index after the first render
IndexInit ==
  /\ currentIndexRef = 0
  /\ baseOffsetRef = 0
  /\ lastDirectionRef = ""
  /\ distanceKm = 5000
  /\ basePinchScaleRef = 10
  /\ baseDistanceRef = 5000
  /\ scrollOffset = ScrollTo(0, FALSE)

\* the pointer position at offset (dx, dy) from the centre of the default layout
At(dx, dy) == [x |-> Quot(size, 2) + dx, y |-> Quot(size, 2) + dy]

Init ==
  /\ centerX = Quot(size, 2) /\ centerY = Quot(size, 2) /\ centerR = Quot(size, 2)
  /\ prevAngle = 0 /\ totalAngle = 0 /\ samples = 0
  /\ radiusMean = 0 /\ radiusM2 = 0 /\ isInsideBand = FALSE
  /\ lastReportedTurn = 0 /\ lastReportedAngle = 0
  /\ angularVelocity = 0 /\ lastUpdateTime = 0
  /\ lastDirection = "" /\ lastRadius = 0
  /\ state = "UNDETERMINED"
  /\ calls = << >> /\ trace = << >> /\ input = NoEvent /\ jsDone = << >>
  /\ angleArg = Unset /\ angleRes = Unset
  /\ windowWidth = DefaultWidth /\ IndexInit

\* ----------------------------------------------------------------- handlers
\* resetStats without its last assignment
resetStatsKeepsLastRadius ==
  /\ totalAngle' = 0
  /\ samples' = 0
  /\ radiusMean' = 0
  /\ radiusM2' = 0
  /\ isInsideBand' = FALSE
  /\ lastReportedTurn' = 0
  /\ lastReportedAngle' = 0
  /\ angularVelocity' = 0
  /\ lastUpdateTime' = 0
  /\ lastDirection' = ""
  /\ UNCHANGED lastRadius

resetStats ==
  /\ totalAngle' = 0
  /\ samples' = 0
  /\ radiusMean' = 0
  /\ radiusM2' = 0
  /\ isInsideBand' = FALSE
  /\ lastReportedTurn' = 0
  /\ lastReportedAngle' = 0
  /\ angularVelocity' = 0
  /\ lastUpdateTime' = 0
  /\ lastDirection' = ""
  /\ lastRadius' = 0

\* onBegin without the initial angle
OnBeginKeepsAngle(p) ==
  /\ state = "UNDETERMINED"
  /\ state' = "BEGAN"
  /\ calls' = << GestureStart >>
  /\ totalAngle' = 0
  /\ samples' = 0
  /\ radiusMean' = 0
  /\ radiusM2' = 0
  /\ isInsideBand' = FALSE
  /\ trace' = << p >>
  /\ input' = PointerEvent("begin", p)
  /\ jsDone' = << >>
  /\ UNCHANGED <<calibration, prevAngle, lastReportedTurn, lastReportedAngle,
                  angularVelocity, lastUpdateTime, lastDirection, lastRadius, pure, consumer>>

\* pan.onBegin: UNDETERMINED -> BEGAN
OnBegin(p) ==
  /\ state = "UNDETERMINED"
  /\ state' = "BEGAN"
  /\ calls' = << GestureStart >>
  /\ prevAngle' = Atan2(p.y - centerY, p.x - centerX)
  /\ totalAngle' = 0
  /\ samples' = 0
  /\ radiusMean' = 0
  /\ radiusM2' = 0
  /\ isInsideBand' = FALSE
  /\ trace' = << p >>
  /\ input' = PointerEvent("begin", p)
  /\ jsDone' = << >>
  /\ UNCHANGED <<calibration, lastReportedTurn, lastReportedAngle,
                  angularVelocity, lastUpdateTime, lastDirection, lastRadius, pure, consumer>>

\* BEGAN -> ACTIVE: the pan is recognised; no onStart handler is registered
Activate ==
  /\ state = "BEGAN"
  /\ state' = "ACTIVE"
  /\ input' = StateEvent("activate")
  /\ UNCHANGED <<calibration, tracker, calls, trace, pure, jsDone, consumer>>

\* onUpdate with the squared deviation taken from the old mean alone
OnUpdateNaiveM2(p) ==
  /\ state = "ACTIVE"
  /\ trace' = Append(trace, p)
  /\ input' = PointerEvent("move", p)
  /\ UNCHANGED <<calibration, state, lastReportedAngle, lastUpdateTime, pure, jsDone, consumer>>
  /\ LET dx == p.x - centerX
         dy == p.y - centerY
         r  == Hypot(dx, dy)
         a  == Atan2(dy, dx)
         d  == normalizeAngle(a - prevAngle)
     IN IF InDeadZone(r, centerR)
        THEN UNCHANGED <<prevAngle, totalAngle, samples, radiusMean, radiusM2,
                         isInsideBand, lastReportedTurn, angularVelocity,
                         lastDirection, lastRadius, calls>>
        ELSE IF TooLinear(d, lastRadius)
        THEN /\ lastRadius' = r
             /\ prevAngle' = a
             /\ UNCHANGED <<totalAngle, samples, radiusMean, radiusM2,
                             isInsideBand, lastReportedTurn, angularVelocity,
                             lastDirection, calls>>
        ELSE LET n      == samples + 1
                 delta  == r - radiusMean
                 mean   == radiusMean + Quot(delta, n)
                 delta2 == r - mean
                 v      == Ema(d, angularVelocity)
                 currentDirection == DirectionOf(v)
                 total  == AfterReversal(totalAngle, lastDirection, currentDirection) + v
                 currentTurns == total
                 full   == NewFullTurn(currentTurns, lastReportedTurn)
             IN /\ lastRadius' = r
                /\ isInsideBand' = TRUE
                /\ samples' = n
                /\ radiusMean' = mean
                /\ radiusM2' = radiusM2 + delta * delta
                /\ angularVelocity' = v
                /\ lastDirection' = currentDirection
                /\ totalAngle' = total
                /\ prevAngle' = a
                /\ lastReportedTurn' = IF full THEN currentTurns ELSE lastReportedTurn
                /\ calls' = calls \o << RotationChange(currentTurns, currentDirection, 1) >>
                               \o (IF full THEN << Circle("onUpdate", currentTurns, currentDirection) >>
                                   ELSE << >>)

\* pan.onUpdate: one pointer move while ACTIVE
OnUpdate(p) ==
  /\ state = "ACTIVE"
  /\ trace' = Append(trace, p)
  /\ input' = PointerEvent("move", p)
  /\ UNCHANGED <<calibration, state, lastReportedAngle, lastUpdateTime, pure, jsDone, consumer>>
  /\ LET dx == p.x - centerX
         dy == p.y - centerY
         r  == Hypot(dx, dy)
         a  == Atan2(dy, dx)
         d  == normalizeAngle(a - prevAngle)
     IN IF InDeadZone(r, centerR)
        THEN UNCHANGED <<prevAngle, totalAngle, samples, radiusMean, radiusM2,
                         isInsideBand, lastReportedTurn, angularVelocity,
                         lastDirection, lastRadius, calls>>
        ELSE IF TooLinear(d, lastRadius)
        THEN /\ lastRadius' = r
             /\ prevAngle' = a
             /\ UNCHANGED <<totalAngle, samples, radiusMean, radiusM2,
                             isInsideBand, lastReportedTurn, angularVelocity,
                             lastDirection, calls>>
        ELSE LET n      == samples + 1
                 delta  == r - radiusMean
                 mean   == radiusMean + Quot(delta, n)
                 delta2 == r - mean
                 v      == Ema(d, angularVelocity)
                 currentDirection == DirectionOf(v)
                 total  == AfterReversal(totalAngle, lastDirection, currentDirection) + v
                 currentTurns == total
                 full   == NewFullTurn(currentTurns, lastReportedTurn)
             IN /\ lastRadius' = r
                /\ isInsideBand' = TRUE
                /\ samples' = n
                /\ radiusMean' = mean
                /\ radiusM2' = radiusM2 + delta * delta2
                /\ angularVelocity' = v
                /\ lastDirection' = currentDirection
                /\ totalAngle' = total
                /\ prevAngle' = a
                /\ lastReportedTurn' = IF full THEN currentTurns ELSE lastReportedTurn
                /\ calls' = calls \o << RotationChange(currentTurns, currentDirection, 1) >>
                               \o (IF full THEN << Circle("onUpdate", currentTurns, currentDirection) >>
                                   ELSE << >>)

\* pan.onEnd(e, success): the handler leaves ACTIVE, for END when the pointer
\* is lifted (success) and for CANCELLED when the gesture is interrupted
OnEnd(success) ==
  /\ state = "ACTIVE"
  /\ state' = IF success THEN "END" ELSE "CANCELLED"
  /\ input' = StateEvent(IF success THEN "end" ELSE "cancel")
  /\ LET turns == totalAngle
         varR  == VarR(radiusM2, samples)
     IN calls' = calls
                   \o (IF Accepts(isInsideBand, turns, varR, centerR)
                       THEN << Circle("onEnd", turns,
                                     IF turns < 0 THEN "clockwise"
                                     ELSE "counterclockwise") >>
                       ELSE << >>)
                   \o << GestureEnd("onEnd") >>
  /\ resetStats
  /\ UNCHANGED <<calibration, prevAngle, trace, pure, jsDone, consumer>>

\* BEGAN -> FAILED (the pointer is lifted before the pan is recognised) or
\* BEGAN -> CANCELLED (the pointer stream is interrupted): no onEnd
Abandon(cancelled) ==
  /\ state = "BEGAN"
  /\ state' = IF cancelled THEN "CANCELLED" ELSE "FAILED"
  /\ input' = StateEvent(IF cancelled THEN "cancel" ELSE "end")
  /\ UNCHANGED <<calibration, tracker, calls, trace, pure, jsDone, consumer>>

\* pan.onFinalize: a begun handler has reached END, FAILED or CANCELLED
OnFinalize ==
  /\ state \in {"END", "FAILED", "CANCELLED"}
  /\ state' = "UNDETERMINED"
  /\ calls' = Append(calls, GestureEnd("onFinalize"))
  /\ resetStats
  /\ UNCHANGED <<calibration, prevAngle, trace, input, pure, jsDone, consumer>>

\* a pinch handler that also clears the radius baseline of the pan
OnPinchUpdateTouchesPan(scale) ==
  /\ state \in {"UNDETERMINED", "BEGAN", "ACTIVE"}
  /\ calls' = Append(calls, PinchChange(scale))
  /\ input' = PinchEvent(scale)
  /\ lastRadius' = 0
  /\ UNCHANGED <<calibration, prevAngle, totalAngle, samples, radiusMean,
                  radiusM2, isInsideBand, lastReportedTurn, lastReportedAngle,
                  angularVelocity, lastUpdateTime, lastDirection, state,
                  trace, pure, jsDone, consumer>>

\* pinch.onUpdate; it is not dispatched between the onEnd and the onFinalize
\* of one pan event
OnPinchUpdate(scale) ==
  /\ state \in {"UNDETERMINED", "BEGAN", "ACTIVE"}
  /\ calls' = Append(calls, PinchChange(scale))
  /\ input' = PinchEvent(scale)
  /\ UNCHANGED <<calibration, tracker, state, trace, pure, jsDone, consumer>>

\* onLayout with the radius taken from the container
OnLayoutRadiusFromContainer(width, height) ==
  /\ state \in {"UNDETERMINED", "BEGAN", "ACTIVE"}
  /\ centerX' = Quot(width, 2)
  /\ centerY' = Quot(height, 2)
  /\ centerR' = Quot(IF width < height THEN width ELSE height, 2)
  /\ input' = LayoutEvent(width, height)
  /\ UNCHANGED <<tracker, state, calls, trace, pure, jsDone, consumer>>

\* onLayout: the container has been laid out with the given width and
\* height; its writes do not land between the onEnd and the onFinalize of
\* one pan event
OnLayout(width, height) ==
  /\ state \in {"UNDETERMINED", "BEGAN", "ACTIVE"}
  /\ centerX' = Quot(width, 2)
  /\ centerY' = Quot(height, 2)
  /\ centerR' = Quot(size, 2)
  /\ input' = LayoutEvent(width, height)
  /\ UNCHANGED <<tracker, state, calls, trace, pure, jsDone, consumer>>

\* the calls of the gesture that the JS thread has not run yet, by position
Pending == { i \in 1..Len(calls) : \A j \in 1..Len(jsDone) : jsDone[j] # i }

\* a JS thread that runs the call made last
RunOnJSNewestFirst ==
  /\ Pending # {}
  /\ jsDone' = Append(jsDone, CHOOSE i \in Pending : \A j \in Pending : j <= i)
  /\ UNCHANGED <<calibration, tracker, state, calls, trace, input, pure, consumer>>

\* the JS thread runs the oldest call that runOnJS has scheduled: the
\* consumer's callback (report, reportChange, reportGestureStart,
\* reportGestureEnd, reportPinchChange) is invoked
RunOnJS ==
  /\ Pending # {}
  /\ jsDone' = Append(jsDone, CHOOSE i \in Pending : \A j \in Pending : i <= j)
  /\ UNCHANGED <<calibration, tracker, state, calls, trace, input, pure, consumer>>

\* scrollToOffset without the clamp
scrollToOffsetUnclamped(offset, animated) ==
  LET newIndex == MathRound(offset, windowWidth * TurnUnit)
  IN /\ scrollOffset' = ScrollTo(offset, animated)
     /\ currentIndexRef' = newIndex

\* scrollToOffset of the list consumer
scrollToOffset(offset, animated) ==
  LET maxOffset == windowWidth * TurnUnit * (eventsLength - 1)
      clampedOffset == MathMax(0, MathMin(maxOffset, offset))
      newIndex == MathRound(clampedOffset, windowWidth * TurnUnit)
  IN /\ scrollOffset' = ScrollTo(clampedOffset, animated)
     /\ currentIndexRef' = newIndex

snapToNearestCard ==
  LET nearestIndex == currentIndexRef
      snapOffset == nearestIndex * windowWidth * TurnUnit
  IN scrollToOffset(snapOffset, TRUE)

\* the consumer's onGestureStart
onGestureStart ==
  /\ baseOffsetRef' = currentIndexRef * windowWidth * TurnUnit
  /\ lastDirectionRef' = ""
  /\ baseDistanceRef' = distanceKm
  /\ basePinchScaleRef' = 10
  /\ input' = CallbackEvent("onGestureStart")
  /\ UNCHANGED <<windowWidth, currentIndexRef, distanceKm, scrollOffset>>
  /\ UNCHANGED <<calibration, tracker, state, calls, trace, jsDone, pure>>

\* the consumer's onRotationChange
onRotationChange(turns, direction, speedMultiplier) ==
  LET base == IF lastDirectionRef # "" /\ lastDirectionRef # direction
              THEN currentIndexRef * windowWidth * TurnUnit
              ELSE baseOffsetRef
      scrollAmount == Abs(turns) * windowWidth * speedMultiplier
      offset == IF direction = "counterclockwise"
                THEN base + scrollAmount
                ELSE base - scrollAmount
  IN /\ baseOffsetRef' = base
     /\ lastDirectionRef' = direction
     /\ scrollToOffset(offset, FALSE)
     /\ input' = CallbackEvent("onRotationChange")
     /\ UNCHANGED <<windowWidth, distanceKm, basePinchScaleRef, baseDistanceRef>>
     /\ UNCHANGED <<calibration, tracker, state, calls, trace, jsDone, pure>>

\* the consumer's onGestureEnd
onGestureEnd ==
  /\ snapToNearestCard
  /\ input' = CallbackEvent("onGestureEnd")
  /\ UNCHANGED <<windowWidth, baseOffsetRef, lastDirectionRef, distanceKm,
                  basePinchScaleRef, baseDistanceRef>>
  /\ UNCHANGED <<calibration, tracker, state, calls, trace, jsDone, pure>>

\* useWindowDimensions reports another width and Index renders again
OnWindowResize(width) ==
  /\ width # windowWidth
  /\ windowWidth' = width
  /\ input' = CallbackEvent("resize")
  /\ UNCHANGED <<currentIndexRef, baseOffsetRef, lastDirectionRef, distanceKm,
                  basePinchScaleRef, baseDistanceRef, scrollOffset>>
  /\ UNCHANGED <<calibration, tracker, state, calls, trace, jsDone, pure>>

\* a lone call of normalizeAngle
Normalize ==
  /\ angleArg # Unset
  /\ angleRes = Unset
  /\ angleRes' = normalizeAngle(angleArg)
  /\ UNCHANGED <<calibration, tracker, state, calls, trace, input, jsDone, consumer, angleArg>>

\* ------------------------------------------------------------ specifications
\* Spec: every interleaving of the pan handlers over a small set of pointer
\* positions: five positions of the mid-band ring (radius 91), two positions
\* outside the band (radius 130 and 143), the centre
Points ==
  { At(91, 0), At(-84, 35), At(35, -84), At(35, 84), At(-84, -35),
    At(130, 0), At(-132, 55), At(0, 0) }

BeginPoints == { At(91, 0), At(-132, 55) }

\* a pointer move of a gesture of at most MaxMoves moves
Move(p) == Len(trace) <= MaxMoves /\ OnUpdate(p)

Next ==
  \/ \E p \in BeginPoints : OnBegin(p)
  \/ Activate
  \/ \E p \in Points : Move(p)
  \/ \E success \in BOOLEAN : OnEnd(success)
  \/ \E cancelled \in BOOLEAN : Abandon(cancelled)
  \/ OnFinalize

Spec == Init /\ [][Next]_vars

\* SpecFilter: every interleaving of the pan handlers over positions that
\* exercise the filters: the centre (dead zone), two positions on one angle
\* at radius 91 and 143 (minimum step), and two more angles at radius 91
FilterPoints ==
  { At(91, 0), At(-84, 35), At(-132, 55), At(-84, -35), At(0, 0) }
FilterBegin == { At(91, 0), At(-84, 35) }

NextFilter ==
  \/ \E p \in FilterBegin : OnBegin(p)
  \/ Activate
  \/ \E p \in FilterPoints : Move(p)
  \/ \E success \in BOOLEAN : OnEnd(success)
  \/ \E cancelled \in BOOLEAN : Abandon(cancelled)
  \/ OnFinalize

SpecFilter == Init /\ [][NextFilter]_vars

\* SpecPinch: the pan handlers interleaved with pinch updates
PinchPoints == { At(91, 0), At(-84, 35), At(0, 133) }
Scales == { 5, 20 }
Pinches == Cardinality({i \in 1..Len(calls) : calls[i].cb = "pinchChange"})

\* a pinch update, at most MaxPinch of them in one gesture
Pinch(scale) == Pinches < MaxPinch /\ OnPinchUpdate(scale)

NextPinch ==
  \/ \E p \in PinchPoints : OnBegin(p)
  \/ Activate
  \/ \E p \in PinchPoints : Move(p)
  \/ \E success \in BOOLEAN : OnEnd(success)
  \/ \E cancelled \in BOOLEAN : Abandon(cancelled)
  \/ OnFinalize
  \/ \E scale \in Scales : Pinch(scale)

SpecPinch == Init /\ [][NextPinch]_vars

\* SpecCircle: scripted counterclockwise circles.  A gesture begins on one of
\* the twelve lattice positions of a ring of radius 13 * k and every move
\* advances by the same number of positions (the stride, chosen by the first
\* move), for at most MaxRevolutions revolutions.
RingBase ==
  << <<13, 0>>, <<12, 5>>, <<5, 12>>, <<0, 13>>, <<-5, 12>>, <<-12, 5>>,
     <<-13, 0>>, <<-12, -5>>, <<-5, -12>>, <<0, -13>>, <<5, -12>>, <<12, -5>> >>
RingScales == { 4, 7, 10 }
Strides == 1..4
RingPoint(k, i) == At(k * RingBase[(i % 12) + 1][1], k * RingBase[(i % 12) + 1][2])
RingStarts == { RingPoint(k, i) : k \in RingScales, i \in {0, 1} }
ScaleOf(p) == Hypot(p.x - Quot(size, 2), p.y - Quot(size, 2)) \div (13 * RUnit)
IndexOf(p) == CHOOSE i \in 0..11 : RingPoint(ScaleOf(p), i) = p
\* positions between two moves of the gesture
Stride == (IndexOf(trace[2]) - IndexOf(trace[1]) + 12) % 12
\* positions advanced by the gesture so far
Advanced ==
  IF Len(trace) < 2 THEN 0
  ELSE (Len(trace) - 1) * Stride
\* the next move of the scripted circle: the first move chooses the stride
CircleMove(st) ==
  /\ trace # << >>
  /\ Len(trace) > 1 => (st = Stride /\ Advanced < 12 * MaxRevolutions)
  /\ OnUpdate(RingPoint(ScaleOf(trace[1]), IndexOf(trace[1]) + Advanced + st))

NextCircle ==
  \/ \E p \in RingStarts : OnBegin(p)
  \/ Activate
  \/ \E st \in Strides : CircleMove(st)
  \/ \E success \in BOOLEAN : OnEnd(success)
  \/ \E cancelled \in BOOLEAN : Abandon(cancelled)
  \/ OnFinalize

SpecCircle == Init /\ [][NextCircle]_vars

\* SpecDeliver: a scripted circle on the UI thread interleaved with the JS
\* thread, which runs the scheduled calls at its own pace; the next gesture
\* begins once the calls of the previous one have been run
DeliverStarts == { RingPoint(7, 0) }
DeliverStrides == { 3, 4 }
Begin(p) == Pending = {} /\ OnBegin(p)

NextDeliver ==
  \/ \E p \in DeliverStarts : Begin(p)
  \/ Activate
  \/ \E st \in DeliverStrides : CircleMove(st)
  \/ \E success \in BOOLEAN : OnEnd(success)
  \/ \E cancelled \in BOOLEAN : Abandon(cancelled)
  \/ OnFinalize
  \/ RunOnJS

SpecDeliver == Init /\ [][NextDeliver]_vars

\* SpecLayout: the pan handlers interleaved with layouts of the container.
\* Widths and heights are even, so that the centre is a whole pixel.
Layouts == { <<280, 280>>, <<320, 240>>, <<200, 400>> }
LayoutPoints == { At(91, 0), At(-84, 35) }
LayoutBegin == { At(-84, 35) }

NextLayout ==
  \/ \E p \in LayoutBegin : OnBegin(p)
  \/ Activate
  \/ \E p \in LayoutPoints : Move(p)
  \/ \E success \in BOOLEAN : OnEnd(success)
  \/ \E cancelled \in BOOLEAN : Abandon(cancelled)
  \/ OnFinalize
  \/ \E l \in Layouts : OnLayout(l[1], l[2])

SpecLayout == Init /\ [][NextLayout]_vars

\* SpecReverse: a scripted back-and-forth path.  The gesture begins on the
\* ring of radius 91 and every move goes a third of a revolution
\* (ZigStride positions) one way or the other; the sense of rotation
\* changes at most MaxReversals times in at most MaxSteps moves.
ZigStride == 4
ZigStart == RingPoint(7, 0)
\* positions (counterclockwise, modulo 12) covered by the i-th move
StepOf(i) == (IndexOf(trace[i + 1]) - IndexOf(trace[i]) + 12) % 12
HandTurns ==
  Cardinality({ i \in 2..(Len(trace) - 1) : StepOf(i) # StepOf(i - 1) })
ZigStep(ccw) == IF ccw THEN ZigStride ELSE 12 - ZigStride
ZigMove(ccw) ==
  /\ trace # << >>
  /\ Len(trace) <= MaxSteps
  /\ (Len(trace) >= 2 /\ StepOf(Len(trace) - 1) # ZigStep(ccw))
       => HandTurns < MaxReversals
  /\ OnUpdate(RingPoint(7, IndexOf(trace[Len(trace)]) + ZigStep(ccw)))

NextReverse ==
  \/ OnBegin(ZigStart)
  \/ Activate
  \/ \E ccw \in BOOLEAN : ZigMove(ccw)
  \/ \E success \in BOOLEAN : OnEnd(success)
  \/ \E cancelled \in BOOLEAN : Abandon(cancelled)
  \/ OnFinalize

SpecReverse == Init /\ [][NextReverse]_vars

\* SpecConsumer: the callbacks of the list consumer in any order and with
\* any arguments: up to MaxTurns turns either way in steps of 1 / TurnUnit,
\* either direction whatever the sign of the turns, a speed multiplier
\* that is negative, zero, one or two, under two window widths
Widths == { 320, 375 }
TurnInputs == (-(MaxTurns * TurnUnit))..(MaxTurns * TurnUnit)
Directions == { "clockwise", "counterclockwise" }
SpeedMultipliers == { -1, 0, 1, 2 }

InitConsumer ==
  /\ centerX = Quot(size, 2) /\ centerY = Quot(size, 2) /\ centerR = Quot(size, 2)
  /\ prevAngle = 0 /\ totalAngle = 0 /\ samples = 0
  /\ radiusMean = 0 /\ radiusM2 = 0 /\ isInsideBand = FALSE
  /\ lastReportedTurn = 0 /\ lastReportedAngle = 0
  /\ angularVelocity = 0 /\ lastUpdateTime = 0
  /\ lastDirection = "" /\ lastRadius = 0
  /\ state = "UNDETERMINED"
  /\ calls = << >> /\ trace = << >> /\ input = NoEvent /\ jsDone = << >>
  /\ angleArg = Unset /\ angleRes = Unset
  /\ windowWidth \in Widths /\ IndexInit

NextConsumer ==
  \/ onGestureStart
  \/ \E turns \in TurnInputs, direction \in Directions,
         speedMultiplier \in SpeedMultipliers :
       onRotationChange(turns, direction, speedMultiplier)
  \/ onGestureEnd
  \/ \E width \in Widths : OnWindowResize(width)

SpecConsumer == InitConsumer /\ [][NextConsumer]_vars

\* SpecNormalize: normalizeAngle on its own, for every whole number of
\* degrees up to MaxWraps turns and a half on either side
NormInputs == { Deg * g : g \in -(360 * MaxWraps + 180)..(360 * MaxWraps + 180) }

InitNormalize ==
  /\ centerX = Quot(size, 2) /\ centerY = Quot(size, 2) /\ centerR = Quot(size, 2)
  /\ prevAngle = 0 /\ totalAngle = 0 /\ samples = 0
  /\ radiusMean = 0 /\ radiusM2 = 0 /\ isInsideBand = FALSE
  /\ lastReportedTurn = 0 /\ lastReportedAngle = 0
  /\ angularVelocity = 0 /\ lastUpdateTime = 0
  /\ lastDirection = "" /\ lastRadius = 0
  /\ state = "UNDETERMINED"
  /\ calls = << >> /\ trace = << >> /\ input = NoEvent /\ jsDone = << >>
  /\ angleArg \in NormInputs /\ angleRes = Unset
  /\ windowWidth = DefaultWidth /\ IndexInit

NextNormalize == Normalize

SpecNormalize == InitNormalize /\ [][NextNormalize]_vars

\* ------------------------------------------------------------------ claims
Count(cb) == Cardinality({i \in 1..Len(calls) : calls[i].cb = cb})
CountBy(cb, h) ==
  Cardinality({i \in 1..Len(calls) : calls[i].cb = cb /\ calls[i].by = h})
Completed(kind) == state = "UNDETERMINED" /\ input.kind = kind

\* C1: a gesture that begins and ends normally gives the consumer exactly
\* one gesture-end, and no full-circle-completed follows it.
C1_OneGestureEndPerSession ==
  Completed("end") =>
    /\ Count("gestureEnd") = 1
    /\ \A i, j \in 1..Len(calls) :
         (calls[i].cb = "gestureEnd" /\ calls[j].cb = "circle") => j < i

\* C2: cancel() emits exactly one gesture-end and no full-circle-completed,
\* whatever the tracker has accumulated.
C2_CancelEmitsOnlyGestureEnd ==
  Completed("cancel") =>
    /\ Count("gestureEnd") = 1
    /\ CountBy("circle", "onEnd") = 0

\* C3 as stated: after end() or cancel() all per-gesture state, previousAngle
\* included, has its initial value.
StatsAreInitial ==
  /\ totalAngle = 0 /\ samples = 0 /\ radiusMean = 0 /\ radiusM2 = 0
  /\ isInsideBand = FALSE /\ angularVelocity = 0 /\ lastDirection = ""
  /\ lastReportedTurn = 0 /\ lastRadius = 0
C3_Original ==
  (Completed("end") \/ Completed("cancel")) => (StatsAreInitial /\ prevAngle = 0)

\* C3 as amended: after end() or cancel() every piece of per-gesture state
\* except previousAngle has its initial value, and the calibration is the
\* one the gesture started with.
C3_ResetAfterGesture ==
  (Completed("end") \/ Completed("cancel")) =>
    /\ StatsAreInitial
    /\ calibration = <<Quot(size, 2), Quot(size, 2), Quot(size, 2)>>
\* a gesture that accumulated rotation, a radius mean and a report has ended
C3_Witness ==
  /\ Completed("end") \/ Completed("cancel")
  /\ Count("rotationChange") >= 2
  /\ Count("circle") >= 1
  /\ prevAngle # 0

\* the callbacks issued by the step, and the reports among them
Issued == SubSeq(calls', Len(calls) + 1, Len(calls'))
IsCircle(c) == c.cb = "circle"
IsRotationChange(c) == c.cb = "rotationChange"
Reports == SelectSeq(calls, IsRotationChange)

\* C4: end() emits a final full-circle-completed exactly when, at release,
\* the band flag is set, |totalAngle / 2 pi| >= turnThreshold and the sample
\* variance of the radii is at most (radius * 0.15)^2; its direction is
\* clockwise iff totalAngle < 0.
C4_Criteria ==
  /\ isInsideBand
  /\ Abs(totalAngle) >= turnThreshold * TWO_PI
  /\ (IF samples > 1 THEN radiusM2 \div (samples - 1) ELSE 0)
       <= ((centerR * RUnit * 15) \div 100) * ((centerR * RUnit * 15) \div 100)
C4_EndAcceptance ==
  [][(state = "ACTIVE" /\ state' = "END") =>
       SelectSeq(Issued, IsCircle) =
         IF C4_Criteria
         THEN << Circle("onEnd", totalAngle,
                        IF totalAngle < 0 THEN "clockwise" ELSE "counterclockwise") >>
         ELSE << >>]_vars
\* end() has rejected a gesture of a full turn for its radius variance alone
C4_Witness ==
  /\ state = "END"
  /\ CountBy("circle", "onEnd") = 0
  /\ Reports # << >>
  /\ Abs(Reports[Len(Reports)].turns) >= turnThreshold * TWO_PI
\* end() has accepted a clockwise gesture
C4_WitnessAccepted ==
  /\ state = "END"
  /\ \E i \in 1..Len(calls) :
       calls[i].cb = "circle" /\ calls[i].by = "onEnd"
         /\ calls[i].direction = "clockwise"

\* C5: a gesture none of whose samples has a radius in
\* [radius * minRadiusRatio, radius * maxRadiusRatio] gets no
\* full-circle-completed from end().
InBand(p) ==
  LET r == Hypot(p.x - centerX, p.y - centerY)
  IN /\ r * 100 >= centerR * RUnit * minRadiusRatio
     /\ r * 100 <= centerR * RUnit * maxRadiusRatio
C5_BandRejection ==
  (state = "END" /\ \A i \in 1..Len(trace) : ~InBand(trace[i]))
    => CountBy("circle", "onEnd") = 0

\* C6: after exactly N counterclockwise revolutions at constant mid-band
\* radius the turn count is within a small tolerance of N, the direction is
\* counterclockwise and exactly N full-circle-completed have been emitted
\* during tracking, with strictly increasing whole turns.
TurnTolerance == TWO_PI \div 20
TrackingCircles == SelectSeq(calls, LAMBDA c : c.cb = "circle" /\ c.by = "onUpdate")
C6_TurnAccounting ==
  (state = "ACTIVE" /\ Len(trace) >= 2 /\ InBand(trace[1])
     /\ Advanced > 0 /\ Advanced % 12 = 0)
    => /\ Abs(totalAngle - (Advanced \div 12) * TWO_PI) <= TurnTolerance
       /\ lastDirection = "counterclockwise"
       /\ Len(TrackingCircles) = Advanced \div 12
       /\ \A i \in 1..(Len(TrackingCircles) - 1) :
            FullTurns(TrackingCircles[i].turns) < FullTurns(TrackingCircles[i + 1].turns)

\* C7: on an update whose direction differs from the direction set before,
\* totalAngle restarts from zero: the turns of its rotation-changed report
\* are the smoothed velocity of that sample, at most half a turn.
C7_ReversalRestartsTotal ==
  [][(state = "ACTIVE" /\ samples' = samples + 1
        /\ lastDirection # "" /\ lastDirection' # lastDirection)
       => /\ totalAngle' = angularVelocity'
          /\ Abs(totalAngle') <= PI
          /\ Issued # << >>
          /\ Issued[1] = RotationChange(angularVelocity', lastDirection', 1)]_vars
\* the last update reversed the direction of a gesture that had accumulated
\* rotation
C7_Witness ==
  /\ state = "ACTIVE"
  /\ Len(Reports) >= 2
  /\ Reports[Len(Reports)].direction # Reports[Len(Reports) - 1].direction
  /\ Reports[Len(Reports) - 1].turns # 0
  /\ Reports[Len(Reports)].turns = totalAngle

\* C8: a gesture whose samples, the begin sample included, are all within
\* the minimum angular step of one another emits no rotation-changed.
AngleOf(p) == Atan2(p.y - centerY, p.x - centerX)
C8_NoiseIsSilent ==
  (\A i, j \in 1..Len(trace) :
      Abs(normalizeAngle(AngleOf(trace[i]) - AngleOf(trace[j]))) < MinAngleStep)
    => Count("rotationChange") = 0

\* C9: a pinch update emits pinch-changed with exactly the scale it was
\* given and changes no state of the rotation tracker, in whatever state
\* the pan gesture is.
C9_PinchIndependence ==
  [][input'.kind = "pinch" =>
       /\ calls' = Append(calls, PinchChange(input'.scale))
       /\ UNCHANGED <<calibration, tracker, state, trace>>]_vars
\* a pinch update was handled while the tracker held accumulated state
C9_Witness ==
  /\ input.kind = "pinch"
  /\ state = "ACTIVE"
  /\ samples >= 2
  /\ totalAngle # 0
  /\ calls[Len(calls)] = PinchChange(input.scale)

\* C10 as stated: normalizeAngle maps its argument into (-pi, pi],
\* congruent to it modulo 2 pi.
C10_Original ==
  angleRes # Unset =>
    /\ -PI < angleRes /\ angleRes <= PI
    /\ (angleRes - angleArg) % TWO_PI = 0

\* C10 as amended: normalizeAngle maps its argument into [-pi, pi),
\* congruent to it modulo 2 pi; from 179 degrees to -179 degrees the delta
\* is +2 degrees.
C10_NormalizeRange ==
  angleRes # Unset =>
    /\ -PI <= angleRes /\ angleRes < PI
    /\ (angleRes - angleArg) % TWO_PI = 0
    /\ (angleArg = (-179 * Deg) - (179 * Deg)) => angleRes = 2 * Deg
\* the delta from 179 degrees to -179 degrees has been normalised
C10_Witness ==
  /\ angleArg = (-179 * Deg) - (179 * Deg)
  /\ angleRes = 2 * Deg

\* the callbacks the consumer has received in the session, in the order
\* of their receipt
Received == [i \in 1..Len(jsDone) |-> calls[jsDone[i]]]
IsTracking(c) == c.cb \in {"rotationChange", "circle"}

\* C11: the consumer receives the callbacks in the order the handlers
\* issued them; within a session gesture-start is received before any
\* rotation-changed or full-circle-completed, and none of these is
\* received after a gesture-end of the session.
C11_OrderedDelivery ==
  /\ \A i \in 1..Len(jsDone) : jsDone[i] = i
  /\ \A i \in 1..Len(jsDone) :
       IsTracking(Received[i]) =>
         /\ \E j \in 1..(i - 1) : Received[j].cb = "gestureStart"
         /\ \A j \in 1..(i - 1) : Received[j].cb # "gestureEnd"
\* the consumer has received a whole session with reports of both kinds,
\* the final report of onEnd included
C11_Witness ==
  /\ state = "UNDETERMINED"
  /\ Pending = {}
  /\ \E i, j, k \in 1..Len(jsDone) :
       /\ Received[i].cb = "rotationChange"
       /\ Received[j].cb = "circle" /\ Received[j].by = "onUpdate"
       /\ Received[k].cb = "circle" /\ Received[k].by = "onEnd"
  /\ Received[Len(jsDone)] = GestureEnd("onFinalize")
\* the JS thread lags a whole gesture behind the UI thread
C11_WitnessLag ==
  /\ state = "END"
  /\ jsDone = << 1 >>
  /\ CountBy("circle", "onUpdate") >= 1

\* C12: immediately after every onBegin, whatever gestures came before,
\* totalAngle, samples, radiusMean, radiusM2, the band flag, the smoothed
\* velocity, the last direction, lastReportedTurn and lastRadius are zero
\* or unset and prevAngle is atan2 of the begin pointer relative to the
\* centre.
C12_BeginStartsClean ==
  input.kind = "begin" =>
    /\ state = "BEGAN"
    /\ StatsAreInitial
    /\ prevAngle = Atan2(input.y - centerY, input.x - centerX)
\* a gesture has just begun under a centre other than the initial one
C12_Witness ==
  /\ input.kind = "begin"
  /\ <<centerX, centerY>> # <<Quot(size, 2), Quot(size, 2)>>
  /\ prevAngle # 0
  /\ prevAngle # Atan2(input.y - Quot(size, 2), input.x - Quot(size, 2))

\* an update that passed both filters: it counted a sample
Accepted == state = "ACTIVE" /\ samples' = samples + 1
\* an accepted update on which the direction differs from the one set before
Reversed == Accepted /\ lastDirection # "" /\ lastDirection' # lastDirection

\* C13 as stated: in every single update, one that detects a direction
\* reversal included, totalAngle changes by at most pi in absolute value.
C13_Original ==
  [][input'.kind = "move" => Abs(totalAngle' - totalAngle) <= PI]_vars

\* C13 as amended: an update without a direction reversal changes
\* totalAngle by the smoothed velocity, at most pi in absolute value; an
\* update that detects a reversal replaces totalAngle by the smoothed
\* velocity, so that the new totalAngle is at most pi in absolute value
\* whatever it was before.
C13_BoundedStep ==
  [][input'.kind = "move" =>
       /\ Abs(angularVelocity') <= PI
       /\ ~Accepted => totalAngle' = totalAngle
       /\ (Accepted /\ ~Reversed) => totalAngle' - totalAngle = angularVelocity'
       /\ Reversed => totalAngle' = angularVelocity']_vars
\* the last update reversed the direction and moved totalAngle by more
\* than pi
C13_Witness ==
  /\ state = "ACTIVE"
  /\ Len(Reports) >= 2
  /\ Reports[Len(Reports)].direction # Reports[Len(Reports) - 1].direction
  /\ Abs(Reports[Len(Reports)].turns - Reports[Len(Reports) - 1].turns) > PI
  /\ totalAngle = angularVelocity

\* whole turns of a turn count, written out
Whole(t) == (IF t < 0 THEN -t ELSE t) \div TWO_PI
WholeTurnsGrow ==
  \A i \in 1..(Len(TrackingCircles) - 1) :
    Whole(TrackingCircles[i].turns) < Whole(TrackingCircles[i + 1].turns)

\* C14: during tracking an update emits full-circle-completed exactly when
\* floor(|turns|) exceeds the floor of the last reported turn count and is
\* at least turnThreshold; within one gesture the whole turns of successive
\* tracking-time full-circle-completed events are strictly increasing,
\* also across direction reversals.
C14_FullTurnDetection ==
  /\ []WholeTurnsGrow
  /\ [][input'.kind = "move" =>
          SelectSeq(Issued, IsCircle) =
            IF /\ Accepted
               /\ Whole(totalAngle') > Whole(lastReportedTurn)
               /\ Whole(totalAngle') >= turnThreshold
            THEN << Circle("onUpdate", totalAngle', lastDirection') >>
            ELSE << >>]_vars
\* full turns have been reported during tracking in both directions
C14_Witness ==
  /\ state = "ACTIVE"
  /\ Len(TrackingCircles) >= 2
  /\ TrackingCircles[1].direction # TrackingCircles[Len(TrackingCircles)].direction
  /\ lastReportedTurn = TrackingCircles[Len(TrackingCircles)].turns

\* C15: a direction reversal resets totalAngle and leaves lastReportedTurn
\* unchanged; an update that completes a full turn whose count does not
\* exceed the whole turns already reported emits no
\* full-circle-completed, and no whole turn count is reported twice
\* during the tracking of one gesture.
C15_ReversalKeepsBookkeeping ==
  /\ [](\A i, j \in 1..Len(TrackingCircles) :
          i # j => Whole(TrackingCircles[i].turns) # Whole(TrackingCircles[j].turns))
  /\ [][Reversed =>
          /\ totalAngle' = angularVelocity'
          /\ lastReportedTurn' = lastReportedTurn]_vars
  /\ [][(Accepted /\ Whole(totalAngle') > Whole(totalAngle)
            /\ Whole(totalAngle') <= Whole(lastReportedTurn))
          => SelectSeq(Issued, IsCircle) = << >>]_vars
\* after a full turn was reported and the direction reversed, a full turn
\* the other way has been completed without a report
C15_Witness ==
  /\ state = "ACTIVE"
  /\ Len(TrackingCircles) = 1
  /\ lastReportedTurn = TrackingCircles[1].turns
  /\ lastDirection # TrackingCircles[1].direction
  /\ Whole(totalAngle) = Whole(lastReportedTurn)
  /\ Reports[Len(Reports)].turns = totalAngle
  /\ Whole(Reports[Len(Reports) - 1].turns) < Whole(totalAngle)

\* radius and angle of the pointer of the step's event
RadiusOf(p) == Hypot(p.x - centerX, p.y - centerY)
NearCentre(e) == RadiusOf(e) * 100 < centerR * RUnit * 5
Bookkeeping ==
  <<totalAngle, samples, radiusMean, radiusM2, isInsideBand, angularVelocity,
    lastDirection, lastReportedTurn>>

\* C16 as stated: an update whose radius is below radius * 0.05 emits no
\* report and leaves totalAngle, the radius statistics, the band flag, the
\* smoothed velocity, the direction and the turn bookkeeping unchanged,
\* while prevAngle becomes the angle of that sample.
C16_Original ==
  [][(input'.kind = "move" /\ NearCentre(input')) =>
       /\ calls' = calls
       /\ UNCHANGED Bookkeeping
       /\ prevAngle' = AngleOf(input')]_vars

\* C16 as amended: an update whose radius is below radius * 0.05 emits no
\* report and changes no state of the tracker at all: prevAngle and
\* lastRadius keep the values of the last sample outside the dead zone.
C16_DeadZoneIgnored ==
  [][(input'.kind = "move" /\ NearCentre(input')) =>
       /\ calls' = calls
       /\ UNCHANGED <<tracker, calibration, state>>]_vars
\* a sample at the centre has been ignored in a gesture that had
\* accumulated rotation, with the baseline left on another angle
C16_Witness ==
  /\ state = "ACTIVE"
  /\ input.kind = "move"
  /\ NearCentre(input)
  /\ samples >= 2
  /\ totalAngle # 0
  /\ prevAngle # AngleOf(input)
  /\ lastRadius # RadiusOf(input)

\* C17: an update rejected by the gate of the minimum angular step
\* (|d| < 0.05 rad with a previous radius recorded) changes only prevAngle
\* and lastRadius, which become the angle and the radius of the sample: it
\* emits no report and leaves totalAngle, samples, radiusMean, radiusM2,
\* the band flag, the smoothed velocity, the last direction and
\* lastReportedTurn unchanged.
C17_MinimumStepGate ==
  [][(/\ input'.kind = "move"
      /\ ~NearCentre(input')
      /\ lastRadius > 0
      /\ Abs(normalizeAngle(AngleOf(input') - prevAngle)) < MinAngleStep)
       => /\ calls' = calls
          /\ UNCHANGED Bookkeeping
          /\ UNCHANGED <<calibration, state, lastReportedAngle, lastUpdateTime>>
          /\ prevAngle' = AngleOf(input')
          /\ lastRadius' = RadiusOf(input')]_vars
\* the gate has rejected a sample on the angle of the one before it, at
\* another radius, in a gesture that had accumulated rotation
C17_Witness ==
  /\ state = "ACTIVE"
  /\ input.kind = "move"
  /\ Len(trace) >= 3
  /\ ~NearCentre(input)
  /\ Len(Reports) = 1
  /\ totalAngle # 0
  /\ AngleOf(trace[Len(trace) - 1]) = prevAngle
  /\ RadiusOf(trace[Len(trace) - 1]) # lastRadius
  /\ RadiusOf(input) = lastRadius

\* the samples of the gesture that pass both filters, told from the pointer
\* positions alone: the sample is outside the dead zone and, unless it is
\* the first such sample, at least the minimum step away from the angle of
\* the latest earlier position that set the baseline (the begin position
\* or a sample outside the dead zone)
SetsBaseline(i) == i = 1 \/ ~NearCentre(trace[i])
BaselineOf(i) ==
  CHOOSE j \in 1..(i - 1) :
    SetsBaseline(j) /\ \A k \in (j + 1)..(i - 1) : ~SetsBaseline(k)
Passed(i) ==
  /\ i >= 2
  /\ ~NearCentre(trace[i])
  /\ (\E j \in 2..(i - 1) : ~NearCentre(trace[j]))
       => Abs(normalizeAngle(AngleOf(trace[i]) - AngleOf(trace[BaselineOf(i)])))
            >= MinAngleStep
RECURSIVE RadiusSum(_)
RadiusSum(n) ==
  IF n < 2 THEN 0
  ELSE RadiusSum(n - 1) + (IF Passed(n) THEN RadiusOf(trace[n]) ELSE 0)
RECURSIVE DeviationSum(_)
DeviationSum(n) ==
  IF n < 2 THEN 0
  ELSE DeviationSum(n - 1)
         + (IF Passed(n)
            THEN (RadiusOf(trace[n]) - radiusMean) * (RadiusOf(trace[n]) - radiusMean)
            ELSE 0)

\* C18: during a gesture samples is the number of samples that passed both
\* filters, which is the number of rotation-changed reports of the gesture;
\* radiusMean is the arithmetic mean of the radii of those samples and
\* radiusM2 the sum of their squared deviations from that mean, never
\* negative.
C18_RadiusStatistics ==
  state \in {"BEGAN", "ACTIVE"} =>
    /\ samples = Cardinality({ i \in 1..Len(trace) : Passed(i) })
    /\ samples = Len(Reports)
    /\ samples * radiusMean = RadiusSum(Len(trace))
    /\ radiusM2 = DeviationSum(Len(trace))
    /\ radiusM2 >= 0
\* three samples of different radii have been counted and one filtered out
C18_Witness ==
  /\ state = "ACTIVE"
  /\ Len(trace) = 5
  /\ samples = 3
  /\ radiusM2 > 0
  /\ \A i \in 2..5 : Passed(i) => RadiusOf(trace[i]) # radiusMean

\* C19: every rotation-changed report says clockwise iff the smoothed
\* velocity is negative, and its turns are negative iff it says clockwise;
\* the direction of the final report of onEnd, taken from the sign of
\* totalAngle, is the direction of the last rotation-changed report of the
\* gesture.
C19_DirectionAgreesWithSign ==
  /\ [](\A i \in 1..Len(Reports) :
          Reports[i].direction = "clockwise" <=> Reports[i].turns < 0)
  /\ [][Accepted =>
          /\ Issued # << >>
          /\ Issued[1] =
               RotationChange(totalAngle',
                              IF angularVelocity' < 0 THEN "clockwise"
                              ELSE "counterclockwise", 1)]_vars
  /\ [][(state = "ACTIVE" /\ state' # "ACTIVE" /\ IsCircle(Issued[1])) =>
          /\ Reports # << >>
          /\ Issued[1].direction = Reports[Len(Reports)].direction]_vars
\* onEnd has reported a clockwise circle with the turns and the direction
\* of the last rotation-changed report
C19_Witness ==
  /\ state = "END"
  /\ calls[Len(calls) - 1].cb = "circle"
  /\ calls[Len(calls) - 1].by = "onEnd"
  /\ calls[Len(calls) - 1].direction = "clockwise"
  /\ Reports[Len(Reports)].direction = "clockwise"
  /\ Reports[Len(Reports)].turns = calls[Len(calls) - 1].turns
\* a smoothed velocity of zero has been reported as counterclockwise, and
\* the direction has reversed after it
C19_WitnessZero ==
  /\ state = "ACTIVE"
  /\ Len(Reports) >= 2
  /\ Reports[1].turns = 0
  /\ Reports[1].direction = "counterclockwise"
  /\ Reports[2].direction = "clockwise"

\* C20: onLayout sets the centre to (width / 2, height / 2) and the radius
\* to half the configured size whatever the width and the height are, and
\* changes neither totalAngle nor any other state of the gesture.
C20_LayoutSetsGeometry ==
  [][input'.kind = "layout" =>
       /\ 2 * centerX' = input'.x
       /\ 2 * centerY' = input'.y
       /\ 2 * centerR' = size
       /\ UNCHANGED <<tracker, state, calls, trace>>]_vars
\* a layout smaller than the pad in one dimension and larger in the other
\* has been handled during a gesture that had accumulated rotation
C20_Witness ==
  /\ input.kind = "layout"
  /\ state = "ACTIVE"
  /\ samples >= 2
  /\ totalAngle # 0
  /\ input.x < size /\ input.y > size
  /\ <<2 * centerX, 2 * centerY, 2 * centerR>> = <<input.x, input.y, size>>

\* C21: whatever gesture-start, rotation-changed and gesture-end callbacks
\* the list consumer receives, with whatever turns, direction and speed
\* multiplier, every offset it passes to scrollToOffset lies in
\* [0, windowWidth * (events.length - 1)], its card index stays in
\* [0, events.length - 1], and gesture-end requests exactly
\* currentIndex * windowWidth.
C21_ScrollStaysInRange ==
  /\ [](currentIndexRef \in 0..(eventsLength - 1))
  /\ [][input'.kind \in {"onRotationChange", "onGestureEnd"} =>
          /\ scrollOffset'.offset >= 0
          /\ scrollOffset'.offset <= windowWidth * TurnUnit * (eventsLength - 1)]_vars
  /\ [][input'.kind = "onGestureEnd" =>
          /\ scrollOffset' = ScrollTo(currentIndexRef * windowWidth * TurnUnit, TRUE)
          /\ currentIndexRef' = currentIndexRef]_vars
\* gesture-end has snapped to the last card after a rotation that asked
\* for an offset beyond the end of the list
C21_Witness ==
  /\ input.kind = "onGestureEnd"
  /\ currentIndexRef = eventsLength - 1
  /\ baseOffsetRef = (eventsLength - 2) * windowWidth * TurnUnit
  /\ lastDirectionRef = "counterclockwise"
  /\ scrollOffset = ScrollTo((eventsLength - 1) * windowWidth * TurnUnit, TRUE)
\* a rotation that asked for an offset before the start of the list has
\* been clamped to 0 away from the first card
C21_WitnessLow ==
  /\ input.kind = "onRotationChange"
  /\ baseOffsetRef > 0
  /\ scrollOffset = ScrollTo(0, FALSE)
  /\ currentIndexRef = 0

====
